---- MODULE Spec2Model ----
(***************************************************************************)
(* NEXUS fraud detection platform: the FastAPI application                 *)
(* (src/app/main.py.backup), the producers that post events to it and the  *)
(* FraudDashboard Vue component that calls it.                             *)
(*                                                                         *)
(* The application is stateless, so the producers and the component do not *)
(* interact: Spec runs the producers against the application, ClientSpec   *)
(* runs the component against it.                                          *)
(*                                                                         *)
(* Numbers: risk scores and signature_match_score are kept in hundredths   *)
(* (0.3 is 30, 0.95 is 95); amounts are whole KES.                         *)
(***************************************************************************)
EXTENDS Integers, Sequences, FiniteSets, TLC

(* ------------------------------ bounds -------------------------------- *)

\* number of API producers that post events directly to the endpoints;
\* producer p posts for account p
NumProducers == 2

Producers == 1..NumProducers

(* ------------------------- request bodies ----------------------------- *)

\* amounts a producer may post: negative, ordinary, very high
Amounts == {-100, 500, 50000}

\* 24h transaction counts: ordinary and high frequency
Counts24h == {3, 12}

\* signature_match_score in hundredths; 150 is outside [0,1]
SignatureScores == {10, 95, 150}

\* the transaction form the dashboard posts as it is first shown
DefaultTransactionForm ==
    [kind |-> "transaction", amount |-> 50000,
     avg_transaction_amount |-> 1000, transaction_count_24h |-> 5]

\* the check form the dashboard posts as it is first shown
DefaultCheckForm ==
    [kind |-> "check", check_number |-> "12345",
     signature_match_score |-> 95, is_stolen |-> FALSE,
     is_duplicate |-> FALSE, is_altered |-> FALSE]

\* JSON bodies posted to /api/fraud/transactions/analyze by producer p: with
\* the account's baseline, with or without an account_id key, or the
\* dashboard's form
TransactionBodies(p) ==
    [kind : {"transaction"}, account_id : {p}, amount : Amounts,
     avg_transaction_amount : {1000}, stddev : {200},
     transaction_count_24h : Counts24h]
    \cup
    [kind : {"transaction"}, amount : Amounts,
     avg_transaction_amount : {1000}, stddev : {200},
     transaction_count_24h : {3}]
    \cup {DefaultTransactionForm}

\* JSON bodies posted to /api/fraud/checks/analyze by producer p, or the
\* dashboard's form
CheckBodies(p) ==
    [kind : {"check"}, account_id : {p}, check_number : {"12345"},
     signature_match_score : SignatureScores, is_stolen : BOOLEAN,
     is_duplicate : BOOLEAN, is_altered : BOOLEAN]
    \cup {DefaultCheckForm}

(* --------------------- the FastAPI application ------------------------ *)

\* analyze_transaction answering with the demo's "Risk Score: 0.9 (HIGH)"
analyze_transaction_demo(data) ==
    [risk_score |-> 90, risk_level |-> "high", is_flagged |-> TRUE]

\* POST /api/fraud/transactions/analyze: the body is accepted as any dict and
\* never read; the reply is a fixed record
analyze_transaction(data) ==
    [risk_score |-> 30, risk_level |-> "low", is_flagged |-> FALSE]

\* POST /api/fraud/checks/analyze: the body is accepted as any dict and never
\* read; the reply is a fixed record
analyze_check(data) ==
    [risk_score |-> 20, risk_level |-> "low", is_flagged |-> FALSE]

\* GET /api/fraud/dashboard/summary: a fixed record
api_dashboard ==
    [flagged_transactions |-> 5, alerts |-> << >>]

\* an HTTP reply: FastAPI answers a handler's return value with 200
Ok(body) == [status |-> 200, body |-> body]

\* no reply received yet
NoReply == [status |-> "none"]

(* ------------------------------ state --------------------------------- *)

VARIABLES
    calls,      \* producer -> its request to the API and the reply to it
    summary,    \* the last reply to GET /api/fraud/dashboard/summary
    \* data of the FraudDashboard component
    activeTab,
    loading,
    analyzingTransaction,
    analyzingCheck,
    dashboard,
    transactionForm,
    transactionResult,
    checkForm,
    checkResult,
    \* where each async method of the component stands: its pending fetch,
    \* the reply on its way, and how its last call settled
    fetchDashboardCall,
    analyzeTransactionCall,
    analyzeCheckCall

apiVars == << calls, summary >>

clientVars ==
    << activeTab, loading, analyzingTransaction, analyzingCheck, dashboard,
       transactionForm, transactionResult, checkForm, checkResult,
       fetchDashboardCall, analyzeTransactionCall, analyzeCheckCall >>

vars == << apiVars, clientVars >>

IdleCall == [pc |-> "idle"]

\* JavaScript null
null == [type |-> "null"]

\* data().dashboard
InitialDashboard ==
    [total_transactions |-> 0, flagged_transactions |-> 0,
     critical_alerts |-> 0, stolen_checks_detected |-> 0,
     recent_alerts |-> << >>]

\* a method that is not running; settled tells how its last call ended
Settled(how) == [pc |-> "idle", settled |-> how]

\* a method suspended at `await fetch(...)`
AwaitingFetch(body) == [pc |-> "fetch", body |-> body, reply |-> NoReply]

\* The component is created and mounted in one synchronous run: data() sets
\* the fields, mounted() calls fetchDashboard, which sets loading and
\* suspends at its fetch.
Init ==
    /\ calls = [p \in Producers |-> IdleCall]
    /\ summary = NoReply
    /\ activeTab = "dashboard"
    /\ loading = TRUE
    /\ analyzingTransaction = FALSE
    /\ analyzingCheck = FALSE
    /\ dashboard = InitialDashboard
    /\ transactionForm = DefaultTransactionForm
    /\ transactionResult = null
    /\ checkForm = DefaultCheckForm
    /\ checkResult = null
    /\ fetchDashboardCall = AwaitingFetch([kind |-> "summary"])
    /\ analyzeTransactionCall = Settled("never")
    /\ analyzeCheckCall = Settled("never")

(* --------------------------- API producers ---------------------------- *)

\* producer p posts a transaction event
PostTransaction(p) ==
    /\ calls[p].pc = "idle"
    /\ \E b \in TransactionBodies(p) :
          calls' = [calls EXCEPT ![p] = [pc |-> "sent", body |-> b]]
    /\ UNCHANGED << summary, clientVars >>

\* producer p posts a check event
PostCheck(p) ==
    /\ calls[p].pc = "idle"
    /\ \E b \in CheckBodies(p) :
          calls' = [calls EXCEPT ![p] = [pc |-> "sent", body |-> b]]
    /\ UNCHANGED << summary, clientVars >>

\* the application runs analyze_transaction on p's request and replies
HandleTransaction(p) ==
    /\ calls[p].pc = "sent"
    /\ calls[p].body.kind = "transaction"
    /\ calls' = [calls EXCEPT ![p] =
                    [pc |-> "returned", body |-> calls[p].body,
                     reply |-> Ok(analyze_transaction(calls[p].body))]]
    /\ UNCHANGED << summary, clientVars >>

\* the application runs analyze_check on p's request and replies
HandleCheck(p) ==
    /\ calls[p].pc = "sent"
    /\ calls[p].body.kind = "check"
    /\ calls' = [calls EXCEPT ![p] =
                    [pc |-> "returned", body |-> calls[p].body,
                     reply |-> Ok(analyze_check(calls[p].body))]]
    /\ UNCHANGED << summary, clientVars >>

\* the application runs dashboard on a summary query and replies
GetSummary ==
    /\ summary' = Ok(api_dashboard)
    /\ UNCHANGED << calls, clientVars >>

Next ==
    \/ \E p \in Producers : PostTransaction(p)
    \/ \E p \in Producers : PostCheck(p)
    \/ \E p \in Producers : HandleTransaction(p)
    \/ \E p \in Producers : HandleCheck(p)
    \/ GetSummary

Spec == Init /\ [][Next]_vars

(* -------------------- the FraudDashboard component -------------------- *)
(* One action is one synchronous run of the component: from an event or a  *)
(* settled promise to the next await or the end of the method.             *)

Tabs == {"dashboard", "transaction", "check"}

tabVars == << activeTab, transactionForm, checkForm >>

dashboardVars == << loading, dashboard, fetchDashboardCall >>

transactionVars ==
    << analyzingTransaction, transactionResult, analyzeTransactionCall >>

checkVars == << analyzingCheck, checkResult, analyzeCheckCall >>

\* @click="activeTab = ..."
SelectTab(t) ==
    /\ activeTab' = t
    /\ UNCHANGED << apiVars, transactionForm, checkForm, dashboardVars,
                    transactionVars, checkVars >>

\* v-model.number="transactionForm.amount", shown on the transaction tab
EditTransactionForm(a) ==
    /\ activeTab = "transaction"
    /\ transactionForm' = [transactionForm EXCEPT !.amount = a]
    /\ UNCHANGED << apiVars, activeTab, checkForm, dashboardVars,
                    transactionVars, checkVars >>

\* v-model on checkForm.signature_match_score and checkForm.is_stolen, shown
\* on the check tab
EditCheckForm(sig, stolen) ==
    /\ activeTab = "check"
    /\ checkForm' = [checkForm EXCEPT !.signature_match_score = sig,
                                      !.is_stolen = stolen]
    /\ UNCHANGED << apiVars, activeTab, transactionForm, dashboardVars,
                    transactionVars, checkVars >>

\* a reply to the pending fetch of call c arrives from the application
Served(c, body) == [c EXCEPT !.reply = Ok(body)]

\* `await fetch(...)` of call c resolves with the reply; the method goes on
\* to `await response.json()`
AwaitingJson(c) == [pc |-> "json", reply |-> c.reply]

(* fetchDashboard *)

\* the application answers the summary request
ServeDashboard ==
    /\ fetchDashboardCall.pc = "fetch"
    /\ fetchDashboardCall.reply = NoReply
    /\ fetchDashboardCall' = Served(fetchDashboardCall, api_dashboard)
    /\ UNCHANGED << apiVars, tabVars, loading, dashboard, transactionVars,
                    checkVars >>

\* fetch resolved: const response = await fetch(...)
fetchDashboard_response ==
    /\ fetchDashboardCall.pc = "fetch"
    /\ fetchDashboardCall.reply # NoReply
    /\ fetchDashboardCall' = AwaitingJson(fetchDashboardCall)
    /\ UNCHANGED << apiVars, tabVars, loading, dashboard, transactionVars,
                    checkVars >>

\* json resolved: this.dashboard = await response.json(), then finally
fetchDashboard_json ==
    /\ fetchDashboardCall.pc = "json"
    /\ dashboard' = fetchDashboardCall.reply.body
    /\ loading' = FALSE
    /\ fetchDashboardCall' = Settled("resolved")
    /\ UNCHANGED << apiVars, tabVars, transactionVars, checkVars >>

\* fetch or json rejected: catch logs the error, then finally
fetchDashboard_catch ==
    /\ fetchDashboardCall.pc \in {"fetch", "json"}
    /\ loading' = FALSE
    /\ fetchDashboardCall' = Settled("rejected")
    /\ UNCHANGED << apiVars, tabVars, dashboard, transactionVars, checkVars >>

(* analyzeTransaction *)

\* the form is submitted: the submit button is on the transaction tab and is
\* disabled while analyzingTransaction; the method sets the flag and suspends
\* at its fetch, the form serialised into the request
analyzeTransaction ==
    /\ activeTab = "transaction"
    /\ ~analyzingTransaction
    /\ analyzeTransactionCall.pc = "idle"
    /\ analyzingTransaction' = TRUE
    /\ analyzeTransactionCall' = AwaitingFetch(transactionForm)
    /\ UNCHANGED << apiVars, tabVars, dashboardVars, transactionResult,
                    checkVars >>

\* the application answers the analyze request
ServeTransaction ==
    /\ analyzeTransactionCall.pc = "fetch"
    /\ analyzeTransactionCall.reply = NoReply
    /\ analyzeTransactionCall' =
          Served(analyzeTransactionCall,
                 analyze_transaction(analyzeTransactionCall.body))
    /\ UNCHANGED << apiVars, tabVars, dashboardVars, analyzingTransaction,
                    transactionResult, checkVars >>

\* fetch resolved: const response = await fetch(...)
analyzeTransaction_response ==
    /\ analyzeTransactionCall.pc = "fetch"
    /\ analyzeTransactionCall.reply # NoReply
    /\ analyzeTransactionCall' = AwaitingJson(analyzeTransactionCall)
    /\ UNCHANGED << apiVars, tabVars, dashboardVars, analyzingTransaction,
                    transactionResult, checkVars >>

\* json resolved: this.transactionResult = await response.json(), then the
\* flag is cleared
analyzeTransaction_json ==
    /\ analyzeTransactionCall.pc = "json"
    /\ transactionResult' = analyzeTransactionCall.reply.body
    /\ analyzingTransaction' = FALSE
    /\ analyzeTransactionCall' = Settled("resolved")
    /\ UNCHANGED << apiVars, tabVars, dashboardVars, checkVars >>

\* analyzeTransaction whose catch block returns before the flag is cleared
analyzeTransaction_catch_returns ==
    /\ analyzeTransactionCall.pc \in {"fetch", "json"}
    /\ analyzeTransactionCall' = Settled("rejected")
    /\ UNCHANGED << apiVars, tabVars, dashboardVars, analyzingTransaction,
                    transactionResult, checkVars >>

\* fetch or json rejected: catch logs and alerts, then the flag is cleared
analyzeTransaction_catch ==
    /\ analyzeTransactionCall.pc \in {"fetch", "json"}
    /\ analyzingTransaction' = FALSE
    /\ analyzeTransactionCall' = Settled("rejected")
    /\ UNCHANGED << apiVars, tabVars, dashboardVars, transactionResult,
                    checkVars >>

(* analyzeCheck *)

\* the form is submitted: the submit button is on the check tab and is
\* disabled while analyzingCheck; the method sets the flag and suspends at
\* its fetch, the form serialised into the request
analyzeCheck ==
    /\ activeTab = "check"
    /\ ~analyzingCheck
    /\ analyzeCheckCall.pc = "idle"
    /\ analyzingCheck' = TRUE
    /\ analyzeCheckCall' = AwaitingFetch(checkForm)
    /\ UNCHANGED << apiVars, tabVars, dashboardVars, transactionVars,
                    checkResult >>

\* the application answers the analyze request
ServeCheck ==
    /\ analyzeCheckCall.pc = "fetch"
    /\ analyzeCheckCall.reply = NoReply
    /\ analyzeCheckCall' =
          Served(analyzeCheckCall, analyze_check(analyzeCheckCall.body))
    /\ UNCHANGED << apiVars, tabVars, dashboardVars, transactionVars,
                    analyzingCheck, checkResult >>

\* fetch resolved: const response = await fetch(...)
analyzeCheck_response ==
    /\ analyzeCheckCall.pc = "fetch"
    /\ analyzeCheckCall.reply # NoReply
    /\ analyzeCheckCall' = AwaitingJson(analyzeCheckCall)
    /\ UNCHANGED << apiVars, tabVars, dashboardVars, transactionVars,
                    analyzingCheck, checkResult >>

\* json resolved: this.checkResult = await response.json(), then the flag is
\* cleared
analyzeCheck_json ==
    /\ analyzeCheckCall.pc = "json"
    /\ checkResult' = analyzeCheckCall.reply.body
    /\ analyzingCheck' = FALSE
    /\ analyzeCheckCall' = Settled("resolved")
    /\ UNCHANGED << apiVars, tabVars, dashboardVars, transactionVars >>

\* fetch or json rejected: catch logs and alerts, then the flag is cleared
analyzeCheck_catch ==
    /\ analyzeCheckCall.pc \in {"fetch", "json"}
    /\ analyzingCheck' = FALSE
    /\ analyzeCheckCall' = Settled("rejected")
    /\ UNCHANGED << apiVars, tabVars, dashboardVars, transactionVars,
                    checkResult >>

ClientNext ==
    \/ \E t \in Tabs : SelectTab(t)
    \/ \E a \in Amounts : EditTransactionForm(a)
    \/ \E sig \in SignatureScores, stolen \in BOOLEAN : EditCheckForm(sig, stolen)
    \/ ServeDashboard
    \/ fetchDashboard_response
    \/ fetchDashboard_json
    \/ fetchDashboard_catch
    \/ analyzeTransaction
    \/ ServeTransaction
    \/ analyzeTransaction_response
    \/ analyzeTransaction_json
    \/ analyzeTransaction_catch
    \/ analyzeCheck
    \/ ServeCheck
    \/ analyzeCheck_response
    \/ analyzeCheck_json
    \/ analyzeCheck_catch

ClientSpec == Init /\ [][ClientNext]_vars

(* ------------------------- reading the state -------------------------- *)

\* producer p's request has been answered
Returned(p) == calls[p].pc = "returned"

\* the ScoreResult the application returned to producer p
Result(p) == calls[p].reply.body

\* the summary the dashboard endpoint returns in the current state
Summary == api_dashboard

\* the names under which the summary may carry the count of transactions:
\* the DashboardSummary field and the field the Vue component displays
TransactionCounters == {"transactions_today", "total_transactions"}

\* counter f of the summary exists and this step raises it by exactly n
Raised(f, n) ==
    /\ f \in DOMAIN Summary
    /\ f \in DOMAIN Summary'
    /\ Summary'[f] = Summary[f] + n

\* this step is the application answering producer p's submission
Answers(p) == calls[p].pc = "sent" /\ calls'[p].pc = "returned"

\* the tier table of the Alert Classifier, scores in hundredths
TierOf(score) ==
    IF score >= 90 THEN "critical"
    ELSE IF score >= 70 THEN "high"
    ELSE IF score >= 40 THEN "medium"
    ELSE "low"

\* a submission the engine must reject: negative amount, signature score
\* outside [0,1], or no account_id
InvalidInput(b) ==
    \/ "account_id" \notin DOMAIN b
    \/ b.kind = "transaction" /\ b.amount < 0
    \/ b.kind = "check" /\ (b.signature_match_score < 0 \/ b.signature_match_score > 100)

Min(a, b) == IF a < b THEN a ELSE b

\* the check rule table: the stacked contributions of the rules that fire
CheckRuleSum(b) ==
    (IF b.is_stolen THEN 90 ELSE 0) + (IF b.is_altered THEN 50 ELSE 0)
    + (IF b.is_duplicate THEN 40 ELSE 0)
    + (IF b.signature_match_score < 50 THEN 30 ELSE 0)

(* ------------------------------ claims -------------------------------- *)

\* C2: once n valid submissions to n distinct accounts have all returned, the
\* summary's count of transactions equals n.
C2_NoLostIncrement ==
    (\A p \in Producers :
        Returned(p) /\ ~InvalidInput(calls[p].body) /\ calls[p].body.account_id = p)
    => \E f \in TransactionCounters :
          f \in DOMAIN Summary /\ Summary[f] = NumProducers

\* C3: each handled event raises the count of transactions by exactly 1,
\* flagged_transactions by 1 exactly when the result is flagged,
\* critical_alerts by 1 exactly when the level is critical, and
\* stolen_checks_detected by 1 exactly when the event is a stolen check.
C3_OnAlertCounts ==
    [][\A p \in Producers :
          Answers(p) =>
             LET r == calls'[p].reply.body
                 b == calls[p].body
             IN /\ \E f \in TransactionCounters : Raised(f, 1)
                /\ Raised("flagged_transactions", IF r.is_flagged THEN 1 ELSE 0)
                /\ Raised("critical_alerts",
                          IF r.risk_level = "critical" THEN 1 ELSE 0)
                /\ Raised("stolen_checks_detected",
                          IF b.kind = "check" /\ b.is_stolen THEN 1 ELSE 0)]_vars

C8_CheckRuleTable ==
    \A p \in Producers :
        (Returned(p) /\ calls[p].body.kind = "check") =>
            /\ Result(p).risk_score = Min(100, CheckRuleSum(calls[p].body))
            /\ (Result(p).risk_score >= 90 => Result(p).risk_level = "critical")

\* C9: amount 50000 against mean 1000, stddev 200, count_24h 3 gets a score
\* >= 0.9, level critical, is_flagged and an amount-deviation reason; a high
\* amount with a high 24h count is flagged.
C9_SuspiciousTransaction ==
    \A p \in Producers :
        (Returned(p) /\ calls[p].body.kind = "transaction"
            /\ "stddev" \in DOMAIN calls[p].body
            /\ calls[p].body.amount = 50000
            /\ calls[p].body.avg_transaction_amount = 1000
            /\ calls[p].body.stddev = 200) =>
            /\ (calls[p].body.transaction_count_24h = 3 =>
                  /\ Result(p).risk_score >= 90
                  /\ Result(p).risk_level = "critical"
                  /\ Result(p).is_flagged
                  /\ "reasons" \in DOMAIN Result(p)
                  /\ \E i \in DOMAIN Result(p).reasons :
                        Result(p).reasons[i] = "amount deviation")
            /\ (calls[p].body.transaction_count_24h = 12 =>
                  Result(p).is_flagged)

\* C10: a submission with invalid input is answered with an error, not with
\* a result.
C10_InvalidInputRejected ==
    \A p \in Producers :
        (Returned(p) /\ InvalidInput(calls[p].body)) =>
            calls[p].reply.status # 200

\* the request of method call c is outstanding: sent and not yet settled
Outstanding(c) == c.pc \in {"fetch", "json"}

\* this step settles the request of a method whose call goes from c to d
Settles(c, d) == Outstanding(c) /\ ~Outstanding(d)

\* this step settles it by a failure
Fails(c, d) == Settles(c, d) /\ d.settled = "rejected"

\* C12: each busy flag of the component (loading, analyzingTransaction,
\* analyzingCheck) is true exactly while the request of its method is
\* outstanding; the step that settles the request, by success or by failure,
\* sets the flag to false; and a failure leaves the displayed dashboard,
\* transactionResult or checkResult as it was.
C12_BusyFlags ==
    /\ [](/\ loading = Outstanding(fetchDashboardCall)
          /\ analyzingTransaction = Outstanding(analyzeTransactionCall)
          /\ analyzingCheck = Outstanding(analyzeCheckCall))
    /\ [][/\ Settles(fetchDashboardCall, fetchDashboardCall') => ~loading'
          /\ Settles(analyzeTransactionCall, analyzeTransactionCall')
                => ~analyzingTransaction'
          /\ Settles(analyzeCheckCall, analyzeCheckCall') => ~analyzingCheck'
          /\ Fails(fetchDashboardCall, fetchDashboardCall')
                => dashboard' = dashboard
          /\ Fails(analyzeTransactionCall, analyzeTransactionCall')
                => transactionResult' = transactionResult
          /\ Fails(analyzeCheckCall, analyzeCheckCall')
                => checkResult' = checkResult]_vars

\* C12 witness: the summary request has settled, a check analysis has
\* succeeded, and a transaction analysis has failed while an earlier result
\* was on display, which is still there with the flag cleared
C12_Witness ==
    /\ ~Outstanding(fetchDashboardCall) /\ ~loading
    /\ analyzeCheckCall = Settled("resolved") /\ checkResult # null
    /\ analyzeTransactionCall = Settled("rejected")
    /\ transactionResult # null
    /\ ~analyzingTransaction

====
